---- MODULE Spec2Model ----
(***************************************************************************)
(* Conversation lifecycle, message ledger and realtime gateway of the      *)
(* chat application.                                                       *)
(*                                                                         *)
(* Every REST handler is an async function: it runs synchronously up to    *)
(* its next `await` of a database call, so one action of the model is one  *)
(* database call together with the synchronous code that follows it.       *)
(* Several requests are in flight at once (one per element of Procs) and   *)
(* their database calls interleave.  Socket handlers are synchronous, so   *)
(* each of them is one action.                                             *)
(***************************************************************************)
EXTENDS Integers, Sequences, FiniteSets, TLC

(***************************************************************************)
(* Bounds of the model                                                     *)
(***************************************************************************)
MaxConvs == 2        \* conversations ever created
MaxMsgs == 1         \* rows of the messages table (Spec, SpecRT)
NumProtocols == 2    \* size of the space generateProtocol draws from
MaxTime == 1         \* last instant of the wall clock
MaxInbox == 1        \* events kept per connection
MaxLedger == 3       \* rows of the messages table (SpecLedger)

(***************************************************************************)
(* Users, roles, tokens                                                    *)
(***************************************************************************)
NoUser == "null"

UserIds == {"c1", "c2", "a1", "a2", "ad"}

Roles == {"client", "attendant", "admin"}

\* the seeded users table: id -> role (schema.ts users.role)
SeedUsers ==
    [u \in UserIds |->
        CASE u \in {"c1", "c2"} -> "client"
          [] u \in {"a1", "a2"} -> "attendant"
          [] OTHER -> "admin"]

\* a missing Authorization header / handshake token
NoToken == [key |-> "none", userId |-> NoUser, role |-> "none"]

\* a token signed with a key the server does not hold
ForgedToken == [key |-> "forged", userId |-> "ad", role |-> "admin"]

Protocols == 1..NumProtocols

VARIABLES
    users,          \* users table: id -> role
    conversations,  \* conversations table, in insertion order; id = index
    protocols,      \* protocols table: set of [protocol, conversationId]
    messages,       \* messages table, in insertion order
    now,            \* the wall clock read by new Date() / defaultNow()
    req,            \* the REST requests in flight, one per process
    conns,          \* the realtime gateway's connections
    secretSet,      \* whether process.env.JWT_SECRET is set
    webhooks        \* webhooks table, in insertion order

vars ==
    <<users, conversations, protocols, messages, now, req, conns, secretSet,
      webhooks>>

db == <<users, conversations, protocols, messages, webhooks>>

(***************************************************************************)
(* Rows                                                                    *)
(***************************************************************************)
NoRow ==
    [id |-> 0, protocol |-> 0, clientId |-> NoUser, attendantId |-> NoUser,
     status |-> "none", createdAt |-> 0, updatedAt |-> 0]

\* mutant: the row is stored with the column default left out and status active
NewConversationActive(id, protocol, clientId, t) ==
    [id |-> id, protocol |-> protocol, clientId |-> clientId,
     attendantId |-> NoUser, status |-> "active", createdAt |-> t,
     updatedAt |-> t]

\* the row db.insert(conversations).values({protocol, clientId, status}) stores
NewConversation(id, protocol, clientId, t) ==
    [id |-> id, protocol |-> protocol, clientId |-> clientId,
     attendantId |-> NoUser, status |-> "pending", createdAt |-> t,
     updatedAt |-> t]

\* the row db.insert(messages).values({conversationId, senderId, content}) stores
NewMessage(id, conversationId, senderId, content, t) ==
    [id |-> id, conversationId |-> conversationId, senderId |-> senderId,
     content |-> content, createdAt |-> t]

\* select().from(conversations).where(eq(conversations.id, id)): first row or none
SelectConversation(id) ==
    IF id \in 1..Len(conversations) THEN conversations[id] ELSE NoRow

\* select().from(conversations).where(eq(conversations.protocol, protocol))
ExistingProtocol(protocol) ==
    {i \in 1..Len(conversations) : conversations[i].protocol = protocol}

(***************************************************************************)
(* Realtime gateway                                                        *)
(***************************************************************************)
Conns == {"s1", "s2"}

\* utils/socket: process.env.JWT_SECRET || 'your-super-secret-jwt-key'
JWT_SECRET == IF secretSet THEN "JWT_SECRET" ELSE "your-super-secret-jwt-key"

\* a connection that has not presented its handshake yet
NewConn ==
    [state |-> "new", token |-> NoToken, id |-> NoUser, role |-> "none",
     rooms |-> {}, inbox |-> <<>>]

UserRoom(id) == [kind |-> "user", name |-> id]

RoleRoom(role) == [kind |-> "role", name |-> role]

ConversationRoom(conversationId) ==
    [kind |-> "conversation", name |-> ToString(conversationId)]

\* the sockets in a room
Members(room) ==
    {s \in Conns : conns[s].state = "open" /\ room \in conns[s].rooms}

\* deliver one event to every socket of `to`
Deliver(to, event) ==
    [s \in Conns |->
        IF s \in to THEN [conns[s] EXCEPT !.inbox = Append(@, event)]
        ELSE conns[s]]

\* io.to(`conversation:${conversationId}`).emit(event, data): every member
emitToConversation(conversationId, event) ==
    Deliver(Members(ConversationRoom(conversationId)), event)

\* socket.to(room).emit(event, data): every member but the sending socket
SocketTo(s, conversationId, event) ==
    Deliver(Members(ConversationRoom(conversationId)) \ {s}, event)

\* mutant: the signature of the token is not checked
verifyAnyKey(token) == TRUE

\* jwt.verify(token, JWT_SECRET) does not throw
verify(token) == token.key = JWT_SECRET

\* io.to(`role:${role}`).emit(event, data): every member
emitToRole(role, event) == Deliver(Members(RoleRoom(role)), event)

\* io.use(...) then io.on('connection'): verify the handshake token, build the
\* principal from its claims (role defaults to client), join user and role rooms
Connect(s, token) ==
    /\ conns[s].state = "new"
    /\ token # NoToken
    /\ verify(token)
    /\ LET role == IF token.role = "none" THEN "client" ELSE token.role
       IN conns' = [conns EXCEPT ![s] =
                [state |-> "open", token |-> token, id |-> token.userId,
                 role |-> role,
                 rooms |-> {UserRoom(token.userId), RoleRoom(role)},
                 inbox |-> <<>>]]
    /\ UNCHANGED <<db, now, req, secretSet>>

\* no token, or jwt.verify throws: next(new Error(...)), the handshake fails and
\* the connection is over
ConnectRefused(s, token) ==
    /\ conns[s].state = "new"
    /\ token = NoToken \/ ~verify(token)
    /\ conns' = [conns EXCEPT ![s].state = "refused", ![s].token = token]
    /\ UNCHANGED <<db, now, req, secretSet>>

\* mutant: the gateway lets a principal join only a conversation it is party to
JoinConversationChecked(s, conversationId) ==
    /\ conns[s].state = "open"
    /\ conversationId \in 1..Len(conversations)
    /\ conns[s].id \in {conversations[conversationId].clientId,
                         conversations[conversationId].attendantId}
    /\ conns' = [conns EXCEPT ![s].rooms = @ \cup {ConversationRoom(conversationId)}]
    /\ UNCHANGED <<db, now, req, secretSet>>

\* socket.on('join:conversation')
JoinConversation(s, conversationId) ==
    /\ conns[s].state = "open"
    /\ conns' = [conns EXCEPT ![s].rooms = @ \cup {ConversationRoom(conversationId)}]
    /\ UNCHANGED <<db, now, req, secretSet>>

\* socket.on('leave:conversation')
LeaveConversation(s, conversationId) ==
    /\ conns[s].state = "open"
    /\ conns' = [conns EXCEPT ![s].rooms = @ \ {ConversationRoom(conversationId)}]
    /\ UNCHANGED <<db, now, req, secretSet>>

\* mutant: the relayed message is also stored in the messages table
MessageSendStored(s, conversationId, content) ==
    /\ conns[s].state = "open"
    /\ conns' = SocketTo(s, conversationId,
          [type |-> "message:new", conversationId |-> conversationId,
           content |-> content, sender |-> conns[s].id])
    /\ messages' = Append(messages,
          NewMessage(Len(messages) + 1, conversationId, conns[s].id, content, now))
    /\ UNCHANGED <<webhooks, users, conversations, protocols, now, req, secretSet>>

\* socket.on('message:send'): relayed to the room, nothing is stored
MessageSend(s, conversationId, content) ==
    /\ conns[s].state = "open"
    /\ conns' = SocketTo(s, conversationId,
          [type |-> "message:new", conversationId |-> conversationId,
           content |-> content, sender |-> conns[s].id])
    /\ UNCHANGED <<db, now, req, secretSet>>

\* socket.on('typing:start')
TypingStart(s, conversationId) ==
    /\ conns[s].state = "open"
    /\ conns' = SocketTo(s, conversationId,
          [type |-> "typing:user", conversationId |-> conversationId,
           content |-> "", sender |-> conns[s].id])
    /\ UNCHANGED <<db, now, req, secretSet>>

\* socket.on('typing:stop')
TypingStop(s, conversationId) ==
    /\ conns[s].state = "open"
    /\ conns' = SocketTo(s, conversationId,
          [type |-> "typing:stop", conversationId |-> conversationId,
           content |-> "", sender |-> conns[s].id])
    /\ UNCHANGED <<db, now, req, secretSet>>

\* the socket goes away: it leaves its rooms; the handler only logs
Disconnect(s) ==
    /\ conns[s].state = "open"
    /\ conns' = [conns EXCEPT ![s].state = "closed", ![s].rooms = {}]
    /\ UNCHANGED <<db, now, req, secretSet>>

(***************************************************************************)
(* Requests                                                                *)
(***************************************************************************)
Procs == {"p1", "p2"}

Idle ==
    [pc |-> "idle", op |-> "none", uid |-> NoUser, role |-> "none",
     cid |-> 0, content |-> "", protocol |-> 0, snap |-> NoRow,
     ret |-> NoRow, res |-> 0, evs |-> <<>>, out |-> <<>>, log |-> <<>>, aud |-> {},
     filter |-> "", rows |-> {}, msgs |-> <<>>,
     target |-> NoUser, newRole |-> "none"]

\* res.status(code).json(...): the handler has answered
Respond(r, code) == [r EXCEPT !.pc = "done", !.res = code]

\* middleware/auth.ts: JWT_SECRET || 'development-only-secret-do-not-use-in-production'
jwtSecret == IF secretSet THEN "JWT_SECRET" ELSE "development-only-secret"

\* jwt.sign({ userId }, jwtSecret): the only claim a token carries is userId
generateToken(userId) == [key |-> jwtSecret, userId |-> userId, role |-> "none"]

\* authenticate: the user row of the token's userId, or none (401)
authenticate(token) ==
    IF token.key = jwtSecret /\ token.userId \in DOMAIN users
       /\ users[token.userId] \in Roles
    THEN [ok |-> TRUE, id |-> token.userId, role |-> users[token.userId]]
    ELSE [ok |-> FALSE, id |-> NoUser, role |-> "none"]

Started(op, user, cid, content) ==
    [Idle EXCEPT !.op = op, !.uid = user.id, !.role = user.role,
                 !.cid = cid, !.content = content]

(***************************************************************************)
(* triggerWebhook                                                          *)
(***************************************************************************)
Events ==
    {"conversation.created", "conversation.assigned", "conversation.closed",
     "message.created"}

\* the event each operation hands to triggerWebhook
EventOf(op) ==
    CASE op = "create" -> "conversation.created"
      [] op = "assign" -> "conversation.assigned"
      [] op = "close" -> "conversation.closed"
      [] op = "register" -> "auth.register"
      [] op = "createUser" -> "user.created"
      [] op = "updateUser" -> "user.updated"
      [] OTHER -> "message.created"

\* the status of the answer that follows the await of triggerWebhook
SuccessCode(op) ==
    IF op \in {"create", "append", "register", "createUser"} THEN 201 ELSE 200

\* what a fetch of a webhook's url comes to: a 2xx answer, another answer, or
\* an exception (unreachable)
Outcomes == {"ok", "status", "error"}

\* select from webhooks where active, then filter(w => w.events.includes(event))
matchingWebhooks(event) ==
    LET Matches(w) == w.active /\ event \in w.events
    IN SelectSeq(webhooks, Matches)

\* await triggerWebhook(event, data), up to its first fetch: the lookup, the
\* filter; when no webhook matches the function returns and the handler
\* answers, otherwise it awaits the fetch of the first one
triggerWebhook(r, event) ==
    LET t == [r EXCEPT !.evs = Append(@, event), !.out = matchingWebhooks(event)]
    IN IF t.out = <<>> THEN Respond(t, SuccessCode(t.op))
       ELSE [t EXCEPT !.pc = "hook"]

\* mutant: a failed delivery makes the handler answer 500
WebhookFetchThrows(p, outcome) ==
    /\ req[p].pc = "hook"
    /\ LET r == [req[p] EXCEPT
                   !.log = Append(@, [to |-> Head(req[p].out).name,
                                      outcome |-> outcome]),
                   !.out = Tail(@)]
       IN req' = [req EXCEPT ![p] =
                IF outcome # "ok" THEN Respond(r, 500)
                ELSE IF r.out = <<>> THEN Respond(r, SuccessCode(r.op))
                ELSE r]
    /\ UNCHANGED <<db, now, conns, secretSet>>

\* the awaited fetch of the next matching webhook settles: whatever the
\* outcome it is only logged and the loop goes on; after the last one
\* triggerWebhook returns and the handler answers
WebhookFetch(p, outcome) ==
    /\ req[p].pc = "hook"
    /\ LET r == [req[p] EXCEPT
                   !.log = Append(@, [to |-> Head(req[p].out).name,
                                      outcome |-> outcome]),
                   !.out = Tail(@)]
       IN req' = [req EXCEPT ![p] =
                IF r.out = <<>> THEN Respond(r, SuccessCode(r.op)) ELSE r]
    /\ UNCHANGED <<db, now, conns, secretSet>>

\* the lookup of the webhooks throws: the outer catch logs it, triggerWebhook
\* returns and the handler answers
WebhookLookupFails(p) ==
    /\ req[p].pc \in {"c_webhook", "a_webhook", "x_webhook", "m_webhook"}
    /\ req' = [req EXCEPT ![p] =
          Respond([@ EXCEPT !.evs = Append(@, EventOf(req[p].op)),
                           !.log = Append(@, [to |-> "lookup",
                                              outcome |-> "error"])],
                  SuccessCode(req[p].op))]
    /\ UNCHANGED <<db, now, conns, secretSet>>

(***************************************************************************)
(* POST /conversations  (create)                                           *)
(***************************************************************************)
\* mutant: the role check lets every authenticated user through
CreateAllowedAnyRole(role) == role \in Roles

\* "Only clients can create conversations"
CreateAllowed(role) == role = "client"

\* authenticate, the role check, the first generateProtocol() draw
PostConversations(p, token, initialMessage, code) ==
    /\ req[p].pc = "idle"
    /\ LET user == authenticate(token)
           r == Started("create", user, 0, initialMessage)
       IN req' = [req EXCEPT ![p] =
                IF ~user.ok THEN Respond(r, 401)
                ELSE IF ~CreateAllowed(user.role) THEN Respond(r, 403)
                ELSE [r EXCEPT !.pc = "c_select", !.protocol = code]]
    /\ UNCHANGED <<db, now, conns, secretSet>>

\* the uniqueness select found no row: leave the loop
CreateSelectFree(p) ==
    /\ req[p].pc = "c_select"
    /\ ExistingProtocol(req[p].protocol) = {}
    /\ req' = [req EXCEPT ![p].pc = "c_insert"]
    /\ UNCHANGED <<db, now, conns, secretSet>>

\* mutant: the generator returns the code it returned before
CreateSelectTakenSame(p, code) ==
    /\ req[p].pc = "c_select"
    /\ ExistingProtocol(req[p].protocol) # {}
    /\ req' = [req EXCEPT ![p].protocol = req[p].protocol]
    /\ UNCHANGED <<db, now, conns, secretSet>>

\* the uniqueness select found a row: draw again and select again
CreateSelectTaken(p, code) ==
    /\ req[p].pc = "c_select"
    /\ ExistingProtocol(req[p].protocol) # {}
    /\ req' = [req EXCEPT ![p].protocol = code]
    /\ UNCHANGED <<db, now, conns, secretSet>>

\* mutant: the conversations table carries no unique constraint on protocol
CreateInsertNoUnique(p) ==
    /\ req[p].pc = "c_insert"
    /\ LET row == NewConversation(Len(conversations) + 1,
                                  req[p].protocol, req[p].uid, now)
       IN /\ conversations' = Append(conversations, row)
          /\ req' = [req EXCEPT ![p].pc = "c_protocol", ![p].ret = row,
                                ![p].cid = row.id]
    /\ UNCHANGED <<webhooks, users, protocols, messages, now, conns, secretSet>>

\* insert into conversations; conversations.protocol is unique, a duplicate throws
CreateInsert(p) ==
    /\ req[p].pc = "c_insert"
    /\ IF ExistingProtocol(req[p].protocol) # {}
       THEN /\ req' = [req EXCEPT ![p] = Respond(@, 500)]
            /\ UNCHANGED conversations
       ELSE LET row == NewConversation(Len(conversations) + 1,
                                       req[p].protocol, req[p].uid, now)
            IN /\ conversations' = Append(conversations, row)
               /\ req' = [req EXCEPT ![p].pc = "c_protocol", ![p].ret = row,
                                     ![p].cid = row.id]
    /\ UNCHANGED <<webhooks, users, protocols, messages, now, conns, secretSet>>

\* insert into protocols; protocols.protocol is unique, a duplicate throws
CreateProtocol(p) ==
    /\ req[p].pc = "c_protocol"
    /\ IF \E x \in protocols : x.protocol = req[p].protocol
       THEN /\ req' = [req EXCEPT ![p] = Respond(@, 500)]
            /\ UNCHANGED protocols
       ELSE /\ protocols' = protocols \cup
                  {[protocol |-> req[p].protocol, conversationId |-> req[p].cid]}
            /\ req' = [req EXCEPT ![p].pc =
                         IF req[p].content # "" THEN "c_message" ELSE "c_webhook"]
    /\ UNCHANGED <<webhooks, users, conversations, messages, now, conns, secretSet>>

\* if (initialMessage) insert into messages
CreateMessage(p) ==
    /\ req[p].pc = "c_message"
    /\ messages' = Append(messages,
          NewMessage(Len(messages) + 1, req[p].cid, req[p].uid,
                     req[p].content, now))
    /\ req' = [req EXCEPT ![p].pc = "c_webhook"]
    /\ UNCHANGED <<webhooks, users, conversations, protocols, now, conns, secretSet>>

\* await triggerWebhook('conversation.created'); res.status(201).json(conversation)
CreateWebhook(p) ==
    /\ req[p].pc = "c_webhook"
    /\ req' = [req EXCEPT ![p] = triggerWebhook(@, "conversation.created")]
    /\ UNCHANGED <<db, now, conns, secretSet>>

(***************************************************************************)
(* POST /conversations/:id/assign                                          *)
(***************************************************************************)
\* "Only attendants and admins can assign conversations"
AssignAllowed(role) == role \in {"attendant", "admin"}

\* mutant: the status of the row read is not checked
AssignCheckNoStatus(conversation) ==
    IF conversation = NoRow THEN 404 ELSE 0

\* the checks on the row read: 404, 400 or 0 (go on)
AssignCheck(conversation) ==
    IF conversation = NoRow THEN 404
    ELSE IF conversation.status # "pending" THEN 400
    ELSE 0

\* mutant: the update forgets attendantId
AssignSetStatusOnly(conversation, uid, t) ==
    [conversation EXCEPT !.status = "active", !.updatedAt = t]

\* .set({attendantId: user.id, status: 'active', updatedAt: new Date()})
AssignSet(conversation, uid, t) ==
    [conversation EXCEPT !.attendantId = uid, !.status = "active",
                         !.updatedAt = t]

PostAssign(p, token, cid) ==
    /\ req[p].pc = "idle"
    /\ LET user == authenticate(token)
           r == Started("assign", user, cid, "")
       IN req' = [req EXCEPT ![p] =
                IF ~user.ok THEN Respond(r, 401)
                ELSE IF ~AssignAllowed(user.role) THEN Respond(r, 403)
                ELSE [r EXCEPT !.pc = "a_select"]]
    /\ UNCHANGED <<db, now, conns, secretSet>>

\* mutant: the event is handed to the dispatcher before the checks
AssignSelectEmitsFirst(p) ==
    /\ req[p].pc = "a_select"
    /\ LET conversation == SelectConversation(req[p].cid)
           code == AssignCheck(conversation)
           r == [req[p] EXCEPT !.evs = Append(@, "conversation.assigned")]
       IN req' = [req EXCEPT ![p] =
                IF code # 0 THEN Respond([r EXCEPT !.snap = conversation], code)
                ELSE [req[p] EXCEPT !.pc = "a_update", !.snap = conversation]]
    /\ UNCHANGED <<db, now, conns, secretSet>>

AssignSelect(p) ==
    /\ req[p].pc = "a_select"
    /\ LET conversation == SelectConversation(req[p].cid)
           code == AssignCheck(conversation)
       IN req' = [req EXCEPT ![p] =
                IF code # 0 THEN Respond([@ EXCEPT !.snap = conversation], code)
                ELSE [@ EXCEPT !.pc = "a_update", !.snap = conversation]]
    /\ UNCHANGED <<db, now, conns, secretSet>>

\* update ... where id = :id returning *: no condition on the status
AssignUpdate(p) ==
    /\ req[p].pc = "a_update"
    /\ LET updated == AssignSet(conversations[req[p].cid], req[p].uid, now)
       IN /\ conversations' = [conversations EXCEPT ![req[p].cid] = updated]
          /\ req' = [req EXCEPT ![p].pc = "a_webhook", ![p].ret = updated]
    /\ UNCHANGED <<webhooks, users, protocols, messages, now, conns, secretSet>>

AssignWebhook(p) ==
    /\ req[p].pc = "a_webhook"
    /\ req' = [req EXCEPT ![p] = triggerWebhook(@, "conversation.assigned")]
    /\ UNCHANGED <<db, now, conns, secretSet>>

(***************************************************************************)
(* POST /conversations/:id/close                                           *)
(***************************************************************************)
\* mutant: a closed conversation cannot be closed again
ClosePermissionOnce(role, uid, conversation) ==
    IF conversation = NoRow THEN 404
    ELSE IF role = "client" /\ conversation.clientId # uid THEN 403
    ELSE IF role = "attendant" /\ conversation.attendantId # uid THEN 403
    ELSE IF conversation.status = "closed" THEN 400
    ELSE 0

\* mutant: every attendant may close
ClosePermissionAnyAttendant(role, uid, conversation) ==
    IF conversation = NoRow THEN 404
    ELSE IF role = "client" /\ conversation.clientId # uid THEN 403
    ELSE 0

\* the checks on the row read: 404, 403 or 0 (go on)
ClosePermission(role, uid, conversation) ==
    IF conversation = NoRow THEN 404
    ELSE IF role = "client" /\ conversation.clientId # uid THEN 403
    ELSE IF role = "attendant" /\ conversation.attendantId # uid THEN 403
    ELSE 0

\* mutant: closing also clears the attendant
CloseSetClearsAttendant(conversation, t) ==
    [conversation EXCEPT !.status = "closed", !.attendantId = NoUser,
                         !.updatedAt = t]

\* .set({status: 'closed', updatedAt: new Date()})
CloseSet(conversation, t) ==
    [conversation EXCEPT !.status = "closed", !.updatedAt = t]

PostClose(p, token, cid) ==
    /\ req[p].pc = "idle"
    /\ LET user == authenticate(token)
           r == Started("close", user, cid, "")
       IN req' = [req EXCEPT ![p] =
                IF ~user.ok THEN Respond(r, 401)
                ELSE [r EXCEPT !.pc = "x_select"]]
    /\ UNCHANGED <<db, now, conns, secretSet>>

CloseSelect(p) ==
    /\ req[p].pc = "x_select"
    /\ LET conversation == SelectConversation(req[p].cid)
           code == ClosePermission(req[p].role, req[p].uid, conversation)
       IN req' = [req EXCEPT ![p] =
                IF code # 0 THEN Respond([@ EXCEPT !.snap = conversation], code)
                ELSE [@ EXCEPT !.pc = "x_update", !.snap = conversation]]
    /\ UNCHANGED <<db, now, conns, secretSet>>

CloseUpdate(p) ==
    /\ req[p].pc = "x_update"
    /\ LET updated == CloseSet(conversations[req[p].cid], now)
       IN /\ conversations' = [conversations EXCEPT ![req[p].cid] = updated]
          /\ req' = [req EXCEPT ![p].pc = "x_webhook", ![p].ret = updated]
    /\ UNCHANGED <<webhooks, users, protocols, messages, now, conns, secretSet>>

CloseWebhook(p) ==
    /\ req[p].pc = "x_webhook"
    /\ req' = [req EXCEPT ![p] = triggerWebhook(@, "conversation.closed")]
    /\ UNCHANGED <<db, now, conns, secretSet>>

(***************************************************************************)
(* POST /messages  (append)                                                *)
(***************************************************************************)
\* mutant: a client's append is not held back until the conversation is active
AppendPermissionNoStatus(role, uid, conversation) ==
    IF conversation = NoRow THEN 404
    ELSE IF role = "client" /\ conversation.clientId # uid THEN 403
    ELSE IF role = "attendant" /\ conversation.attendantId # uid THEN 403
    ELSE 0

\* mutant: a client is held back only from a closed conversation
AppendPermissionClientOpen(role, uid, conversation) ==
    IF conversation = NoRow THEN 404
    ELSE IF role = "client" /\ conversation.clientId # uid THEN 403
    ELSE IF role = "client" /\ conversation.status = "closed" THEN 400
    ELSE IF role = "attendant" /\ conversation.attendantId # uid THEN 403
    ELSE 0

\* mutant: the assigned attendant too is held to an active conversation
AppendPermissionAttendantActive(role, uid, conversation) ==
    IF conversation = NoRow THEN 404
    ELSE IF role = "client" /\ conversation.clientId # uid THEN 403
    ELSE IF role = "client" /\ conversation.status # "active" THEN 400
    ELSE IF role = "attendant" /\ conversation.attendantId # uid THEN 403
    ELSE IF role = "attendant" /\ conversation.status # "active" THEN 400
    ELSE 0

\* the checks on the row read: 404, 403, 400 or 0 (go on)
AppendPermission(role, uid, conversation) ==
    IF conversation = NoRow THEN 404
    ELSE IF role = "client" /\ conversation.clientId # uid THEN 403
    ELSE IF role = "client" /\ conversation.status # "active" THEN 400
    ELSE IF role = "attendant" /\ conversation.attendantId # uid THEN 403
    ELSE 0

\* authenticate, then "Conversation ID and content are required"
PostMessages(p, token, cid, content) ==
    /\ req[p].pc = "idle"
    /\ LET user == authenticate(token)
           r == Started("append", user, cid, content)
       IN req' = [req EXCEPT ![p] =
                IF ~user.ok THEN Respond(r, 401)
                ELSE IF cid = 0 \/ content = "" THEN Respond(r, 400)
                ELSE [r EXCEPT !.pc = "m_select"]]
    /\ UNCHANGED <<db, now, conns, secretSet>>

AppendSelect(p) ==
    /\ req[p].pc = "m_select"
    /\ LET conversation == SelectConversation(req[p].cid)
           code == AppendPermission(req[p].role, req[p].uid, conversation)
       IN req' = [req EXCEPT ![p] =
                IF code # 0 THEN Respond([@ EXCEPT !.snap = conversation], code)
                ELSE [@ EXCEPT !.pc = "m_insert", !.snap = conversation]]
    /\ UNCHANGED <<db, now, conns, secretSet>>

\* insert into messages ... returning *
\* (aud notes, for the properties, which sockets are in the conversation's room
\* when the message is stored)
AppendInsert(p) ==
    /\ req[p].pc = "m_insert"
    /\ messages' = Append(messages,
          NewMessage(Len(messages) + 1, req[p].cid, req[p].uid,
                     req[p].content, now))
    /\ req' = [req EXCEPT ![p].pc = "m_touch",
                          ![p].aud = Members(ConversationRoom(req[p].cid))]
    /\ UNCHANGED <<webhooks, users, conversations, protocols, now, conns, secretSet>>

\* update conversations set updatedAt = new Date() where id = :conversationId
AppendTouch(p) ==
    /\ req[p].pc = "m_touch"
    /\ conversations' = [conversations EXCEPT ![req[p].cid].updatedAt = now]
    /\ req' = [req EXCEPT ![p].pc = "m_webhook"]
    /\ UNCHANGED <<webhooks, users, protocols, messages, now, conns, secretSet>>

\* await triggerWebhook('message.created'); res.status(201).json(messageWithSender)
\* (the handler makes no call to the realtime gateway)
AppendWebhook(p) ==
    /\ req[p].pc = "m_webhook"
    /\ req' = [req EXCEPT ![p] = triggerWebhook(@, "message.created")]
    /\ UNCHANGED <<db, now, conns, secretSet>>

\* the response has been sent: the request is over
Return(p) ==
    /\ req[p].pc = "done"
    /\ req' = [req EXCEPT ![p] = Idle]
    /\ UNCHANGED <<db, now, conns, secretSet>>

\* time passes
Tick ==
    /\ now < MaxTime
    /\ now' = now + 1
    /\ UNCHANGED <<db, req, conns, secretSet>>

(***************************************************************************)
(* Specifications                                                          *)
(***************************************************************************)
\* the state after construction: empty tables, no request, no connection
Init ==
    /\ users = SeedUsers
    /\ conversations = <<>>
    /\ protocols = {}
    /\ messages = <<>>
    /\ now = 0
    /\ req = [p \in Procs |-> Idle]
    /\ conns = [s \in Conns |-> NewConn]
    /\ secretSet = TRUE
    /\ webhooks = <<>>

\* the state after client c1 has created a conversation without an initial
\* message and the request has returned (SpecCreate reaches it: PendingCreated)
InitPending ==
    /\ users = SeedUsers
    /\ conversations = <<NewConversation(1, 1, "c1", 0)>>
    /\ protocols = {[protocol |-> 1, conversationId |-> 1]}
    /\ messages = <<>>
    /\ now = 0
    /\ req = [p \in Procs |-> Idle]
    /\ conns = [s \in Conns |-> NewConn]
    /\ secretSet = TRUE
    /\ webhooks = <<>>

\* the state after attendant a1 has assigned that conversation and the request
\* has returned (Spec reaches it: ActiveAssigned); JWT_SECRET set or not
InitActive ==
    /\ users = SeedUsers
    /\ conversations = <<AssignSet(NewConversation(1, 1, "c1", 0), "a1", 0)>>
    /\ protocols = {[protocol |-> 1, conversationId |-> 1]}
    /\ messages = <<>>
    /\ now = 0
    /\ req = [p \in Procs |-> Idle]
    /\ conns = [s \in Conns |-> NewConn]
    /\ secretSet \in BOOLEAN
    /\ webhooks = <<>>

\* requests that have not inserted their conversation yet
Creating == {q \in Procs : req[q].pc \in {"c_select", "c_insert"}}

\* requests that have not inserted their message yet
Appending ==
    {q \in Procs : \/ req[q].pc \in {"m_select", "m_insert", "c_message"}
                   \/ /\ req[q].pc \in {"c_select", "c_insert", "c_protocol"}
                      /\ req[q].content # ""}

RoomForConversation == Len(conversations) + Cardinality(Creating) < MaxConvs

RoomForMessage == Len(messages) + Cardinality(Appending) < MaxMsgs

\* no request is in flight
Quiet == \A q \in Procs : req[q].pc = "idle"

Tokens == {NoToken} \cup {generateToken(u) : u \in UserIds}

Contents == {"", "hello"}

\* the ids a request names: every conversation and one id that is none
KnownIds == 1..(Len(conversations) + 1)

\* the database calls of a create request in flight
HandleCreate(p) ==
    \/ CreateSelectFree(p)
    \/ \E code \in Protocols : CreateSelectTaken(p, code)
    \/ CreateInsert(p)
    \/ CreateProtocol(p)
    \/ CreateMessage(p)
    \/ CreateWebhook(p)

\* the database calls of an append request in flight
HandleAppend(p) ==
    \/ AppendSelect(p)
    \/ AppendInsert(p)
    \/ AppendTouch(p)
    \/ AppendWebhook(p)

\* the database calls of an assign, close or append request in flight
Handle(p) ==
    \/ AssignSelect(p)
    \/ AssignUpdate(p)
    \/ AssignWebhook(p)
    \/ CloseSelect(p)
    \/ CloseUpdate(p)
    \/ CloseWebhook(p)
    \/ HandleAppend(p)

\* --- Spec: assign, close and append requests of every user on a pending
\* conversation, two requests at a time, their database calls interleaved
Next ==
    \E p \in Procs :
        \/ \E token \in Tokens, cid \in KnownIds : PostAssign(p, token, cid)
        \/ \E token \in Tokens, cid \in KnownIds : PostClose(p, token, cid)
        \/ /\ RoomForMessage
           /\ \E token \in Tokens, cid \in KnownIds, content \in Contents :
                 PostMessages(p, token, cid, content)
        \/ Handle(p)
        \/ Return(p)

Spec == InitPending /\ [][Next]_vars

\* --- SpecCreate: create requests of every user on the empty database, two
\* requests at a time, their database calls interleaved
NextCreate ==
    \E p \in Procs :
        \/ /\ RoomForConversation
           /\ \E token \in Tokens, im \in Contents, code \in Protocols :
                 /\ im # "" => RoomForMessage
                 /\ PostConversations(p, token, im, code)
        \/ HandleCreate(p)
        \/ Return(p)

SpecCreate == Init /\ [][NextCreate]_vars

\* --- SpecCreateFair: SpecCreate where every database call of a request in
\* flight completes and the generator is fair: in a loop that goes on, every
\* code is drawn again and again
FairCreate ==
    \A p \in Procs :
        /\ WF_vars(CreateSelectFree(p))
        /\ WF_vars(CreateInsert(p))
        /\ WF_vars(CreateProtocol(p))
        /\ WF_vars(CreateMessage(p))
        /\ WF_vars(CreateWebhook(p))
        /\ \A code \in Protocols : SF_vars(CreateSelectTaken(p, code))

SpecCreateFair == Init /\ [][NextCreate]_vars /\ FairCreate

\* --- SpecE2E: the end-to-end scenario, one request after the other, each
\* sent when the one before has returned; time passes at any point
E2E == "p1"

E2ECreate ==
    /\ Quiet /\ conversations = <<>>
    /\ \E C \in {"c1", "c2"}, code \in Protocols :
          PostConversations(E2E, generateToken(C), "", code)

E2EAssign ==
    /\ Quiet /\ Len(conversations) = 1 /\ conversations[1].status = "pending"
    /\ \E A \in {"a1", "a2"} : PostAssign(E2E, generateToken(A), 1)

E2EHello ==
    /\ Quiet /\ Len(conversations) = 1 /\ conversations[1].status = "active"
    /\ messages = <<>>
    /\ PostMessages(E2E, generateToken(conversations[1].clientId), 1, "hello")

E2EHi ==
    /\ Quiet /\ Len(conversations) = 1 /\ conversations[1].status = "active"
    /\ Len(messages) = 1
    /\ PostMessages(E2E, generateToken(conversations[1].attendantId), 1, "hi")

E2EClose ==
    /\ Quiet /\ Len(conversations) = 1 /\ conversations[1].status = "active"
    /\ Len(messages) = 2
    /\ PostClose(E2E, generateToken(conversations[1].attendantId), 1)

E2EFurther ==
    /\ Quiet /\ Len(conversations) = 1 /\ conversations[1].status = "closed"
    /\ \E content \in {"hello", "hi"} :
          PostMessages(E2E, generateToken(conversations[1].clientId), 1, content)

NextE2E ==
    \/ E2ECreate
    \/ E2EAssign
    \/ E2EHello
    \/ E2EHi
    \/ E2EClose
    \/ E2EFurther
    \/ CreateSelectFree(E2E)
    \/ CreateInsert(E2E)
    \/ CreateProtocol(E2E)
    \/ CreateWebhook(E2E)
    \/ Handle(E2E)
    \/ Return(E2E)
    \/ Tick

SpecE2E == Init /\ [][NextE2E]_vars

\* --- SpecRT: the realtime gateway beside append requests (one at a time) on
\* an active conversation
RT == "p1"

RTUsers == {"c1", "a1", "c2"}

RTTokens == {NoToken, ForgedToken} \cup {generateToken(u) : u \in RTUsers}

\* every socket the event goes to can take one more event
RoomInInbox(s, conversationId) ==
    \A t \in Members(ConversationRoom(conversationId)) \ {s} :
        Len(conns[t].inbox) < MaxInbox

NextRT ==
    \/ /\ RoomForMessage
       /\ \E token \in RTTokens : PostMessages(RT, token, 1, "hello")
    \/ HandleAppend(RT)
    \/ Return(RT)
    \/ \E s \in Conns, token \in RTTokens : Connect(s, token)
    \/ \E s \in Conns, token \in RTTokens : ConnectRefused(s, token)
    \/ \E s \in Conns : JoinConversation(s, 1)
    \/ \E s \in Conns : LeaveConversation(s, 1)
    \/ \E s \in Conns : RoomInInbox(s, 1) /\ MessageSend(s, 1, "hello")
    \/ \E s \in Conns : RoomInInbox(s, 1) /\ TypingStart(s, 1)
    \/ \E s \in Conns : RoomInInbox(s, 1) /\ TypingStop(s, 1)
    \/ \E s \in Conns : Disconnect(s)

SpecRT == InitActive /\ [][NextRT]_vars

\* --- SpecLedger: append requests of the client, the attendant, the admin and
\* a stranger on an active conversation, two at a time, while time passes
LedgerUsers == {"c1", "c2", "a1", "ad"}

LedgerContents == {"hello", "hi"}

RoomInLedger == Len(messages) + Cardinality(Appending) < MaxLedger

NextLedger ==
    \/ \E p \in Procs :
          \/ /\ RoomInLedger
             /\ \E u \in LedgerUsers, content \in LedgerContents :
                   PostMessages(p, generateToken(u), 1, content)
          \/ HandleAppend(p)
          \/ Return(p)
    \/ Tick

SpecLedger == InitActive /\ [][NextLedger]_vars

\* --- SpecClose: close requests of every user on an active conversation, two
\* at a time, while time passes
NextClose ==
    \/ \E p \in Procs :
          \/ \E token \in Tokens, cid \in KnownIds : PostClose(p, token, cid)
          \/ CloseSelect(p)
          \/ CloseUpdate(p)
          \/ CloseWebhook(p)
          \/ Return(p)
    \/ Tick

SpecClose == InitActive /\ [][NextClose]_vars

\* --- SpecHook: the four write requests of every user, one request at a time,
\* from the empty database, with webhooks registered whose deliveries succeed
\* or fail
HK == "p1"

\* the webhooks table: one webhook for every event, one for two of the events,
\* one that is not active
RegisteredWebhooks ==
    <<[name |-> "w1", active |-> TRUE, events |-> Events],
      [name |-> "w2", active |-> TRUE,
       events |-> {"conversation.closed", "message.created"}],
      [name |-> "w3", active |-> FALSE, events |-> Events]>>

InitHook ==
    /\ users = SeedUsers
    /\ conversations = <<>>
    /\ protocols = {}
    /\ messages = <<>>
    /\ now = 0
    /\ req = [p \in Procs |-> Idle]
    /\ conns = [s \in Conns |-> NewConn]
    /\ secretSet = TRUE
    /\ webhooks = RegisteredWebhooks

NextHook ==
    \/ /\ RoomForConversation
       /\ \E token \in Tokens, im \in Contents, code \in Protocols :
             /\ im # "" => RoomForMessage
             /\ PostConversations(HK, token, im, code)
    \/ HandleCreate(HK)
    \/ \E token \in Tokens, cid \in KnownIds : PostAssign(HK, token, cid)
    \/ \E token \in Tokens, cid \in KnownIds : PostClose(HK, token, cid)
    \/ /\ RoomForMessage
       /\ \E token \in Tokens, cid \in KnownIds, content \in Contents :
             PostMessages(HK, token, cid, content)
    \/ Handle(HK)
    \/ \E outcome \in Outcomes : WebhookFetch(HK, outcome)
    \/ WebhookLookupFails(HK)
    \/ Return(HK)

SpecHook == InitHook /\ [][NextHook]_vars

\* the start states of Spec and SpecRT are states the program reaches
PendingCreated ==
    /\ Quiet
    /\ conversations = <<NewConversation(1, 1, "c1", 0)>>
    /\ protocols = {[protocol |-> 1, conversationId |-> 1]}
    /\ messages = <<>>

ActiveAssigned ==
    /\ Quiet
    /\ conversations = <<AssignSet(NewConversation(1, 1, "c1", 0), "a1", 0)>>
    /\ messages = <<>>

(***************************************************************************)
(* GET /messages/conversation/:conversationId  (listFor)                   *)
(***************************************************************************)
\* mutant: descending order (desc(messages.createdAt))
InsertByCreatedAtDesc(sorted, m) ==
    LET k == Cardinality({i \in 1..Len(sorted) : sorted[i].createdAt > m.createdAt})
    IN SubSeq(sorted, 1, k) \o <<m>> \o SubSeq(sorted, k + 1, Len(sorted))

\* mutant: a message created at the instant of another one is left out
InsertByCreatedAtUnique(sorted, m) ==
    IF \E i \in 1..Len(sorted) : sorted[i].createdAt = m.createdAt THEN sorted
    ELSE LET k == Cardinality({i \in 1..Len(sorted) :
                                  sorted[i].createdAt <= m.createdAt})
         IN SubSeq(sorted, 1, k) \o <<m>> \o SubSeq(sorted, k + 1, Len(sorted))

\* put m behind every message created no later than it
InsertByCreatedAt(sorted, m) ==
    LET k == Cardinality({i \in 1..Len(sorted) : sorted[i].createdAt <= m.createdAt})
    IN SubSeq(sorted, 1, k) \o <<m>> \o SubSeq(sorted, k + 1, Len(sorted))

\* .orderBy(messages.createdAt); rows of one instant stay in insertion order
RECURSIVE OrderByCreatedAt(_)
OrderByCreatedAt(rows) ==
    IF rows = <<>> THEN <<>>
    ELSE InsertByCreatedAt(OrderByCreatedAt(SubSeq(rows, 1, Len(rows) - 1)),
                           rows[Len(rows)])

\* select().from(messages).where(eq(messages.conversationId, id)).orderBy(createdAt)
listFor(conversationId) ==
    LET Of(m) == m.conversationId = conversationId
    IN OrderByCreatedAt(SelectSeq(messages, Of))

(***************************************************************************)
(* GET /conversations, GET /conversations/:id, GET /messages/conversation/:id *)
(***************************************************************************)
Statuses == {"pending", "active", "closed"}

\* req.query.status is absent
NoFilter == ""

\* whether whereCondition is set: it stays undefined for an admin
HasWhere(role) == role \in {"client", "attendant"}

\* whereCondition: eq(clientId, user.id), or or(eq(status, 'pending'),
\* eq(attendantId, user.id))
whereCondition(role, uid, c) ==
    IF role = "client" THEN c.clientId = uid
    ELSE c.status = "pending" \/ c.attendantId = uid

\* mutant: the second where() call carries the status condition alone
ListWhereStatusOnly(role, uid, status, c) ==
    IF status # NoFilter THEN c.status = status
    ELSE IF HasWhere(role) THEN whereCondition(role, uid, c)
    ELSE TRUE

\* the condition of the query that is awaited: the last where() call made
ListWhere(role, uid, status, c) ==
    IF status # NoFilter
    THEN IF HasWhere(role)
         THEN whereCondition(role, uid, c) /\ c.status = status
         ELSE c.status = status
    ELSE IF HasWhere(role) THEN whereCondition(role, uid, c)
    ELSE TRUE

\* const result = await query
ListRows(role, uid, status) ==
    {conversations[i] : i \in {j \in 1..Len(conversations) :
                                  ListWhere(role, uid, status, conversations[j])}}

\* GET /conversations: authenticate, build the query
GetConversations(p, token, status) ==
    /\ req[p].pc = "idle"
    /\ LET user == authenticate(token)
           r == [Started("list", user, 0, "") EXCEPT !.filter = status]
       IN req' = [req EXCEPT ![p] =
                IF ~user.ok THEN Respond(r, 401)
                ELSE [r EXCEPT !.pc = "l_query"]]
    /\ UNCHANGED <<db, now, conns, secretSet>>

\* await query; the rows are then decorated (client, attendant, last message)
\* and sent
ListQuery(p) ==
    /\ req[p].pc = "l_query"
    /\ req' = [req EXCEPT ![p] =
          Respond([@ EXCEPT !.rows = ListRows(req[p].role, req[p].uid,
                                              req[p].filter)], 200)]
    /\ UNCHANGED <<db, now, conns, secretSet>>

\* mutant: an attendant reads only the conversations assigned to them
GetPermissionAssignedOnly(role, uid, conversation) ==
    IF conversation = NoRow THEN 404
    ELSE IF role = "client" /\ conversation.clientId # uid THEN 403
    ELSE IF role = "attendant" /\ conversation.attendantId # uid THEN 403
    ELSE 0

\* GET /conversations/:id, the checks on the row read: 404, 403 or 0 (go on)
GetPermission(role, uid, conversation) ==
    IF conversation = NoRow THEN 404
    ELSE IF role = "client" /\ conversation.clientId # uid THEN 403
    ELSE IF /\ role = "attendant" /\ conversation.attendantId # uid
            /\ conversation.status # "pending" THEN 403
    ELSE 0

\* GET /conversations/:id: authenticate
GetConversation(p, token, cid) ==
    /\ req[p].pc = "idle"
    /\ LET user == authenticate(token)
           r == Started("get", user, cid, "")
       IN req' = [req EXCEPT ![p] =
                IF ~user.ok THEN Respond(r, 401)
                ELSE [r EXCEPT !.pc = "g_select"]]
    /\ UNCHANGED <<db, now, conns, secretSet>>

GetSelect(p) ==
    /\ req[p].pc = "g_select"
    /\ LET conversation == SelectConversation(req[p].cid)
           code == GetPermission(req[p].role, req[p].uid, conversation)
       IN req' = [req EXCEPT ![p] =
                IF code # 0 THEN Respond([@ EXCEPT !.snap = conversation], code)
                ELSE [@ EXCEPT !.pc = "g_messages", !.snap = conversation]]
    /\ UNCHANGED <<db, now, conns, secretSet>>

\* the messages of the conversation, then res.json({...conversation, messages})
GetMessages(p) ==
    /\ req[p].pc = "g_messages"
    /\ req' = [req EXCEPT ![p] =
          Respond([@ EXCEPT !.ret = req[p].snap, !.msgs = listFor(req[p].cid)], 200)]
    /\ UNCHANGED <<db, now, conns, secretSet>>

\* GET /messages/conversation/:id, the checks on the row read
ListForPermission(role, uid, conversation) ==
    IF conversation = NoRow THEN 404
    ELSE IF role = "client" /\ conversation.clientId # uid THEN 403
    ELSE IF /\ role = "attendant" /\ conversation.attendantId # uid
            /\ conversation.status # "pending" THEN 403
    ELSE 0

\* GET /messages/conversation/:id: authenticate
GetListFor(p, token, cid) ==
    /\ req[p].pc = "idle"
    /\ LET user == authenticate(token)
           r == Started("listFor", user, cid, "")
       IN req' = [req EXCEPT ![p] =
                IF ~user.ok THEN Respond(r, 401)
                ELSE [r EXCEPT !.pc = "f_select"]]
    /\ UNCHANGED <<db, now, conns, secretSet>>

ListForSelect(p) ==
    /\ req[p].pc = "f_select"
    /\ LET conversation == SelectConversation(req[p].cid)
           code == ListForPermission(req[p].role, req[p].uid, conversation)
       IN req' = [req EXCEPT ![p] =
                IF code # 0 THEN Respond([@ EXCEPT !.snap = conversation], code)
                ELSE [@ EXCEPT !.pc = "f_messages", !.snap = conversation]]
    /\ UNCHANGED <<db, now, conns, secretSet>>

ListForMessages(p) ==
    /\ req[p].pc = "f_messages"
    /\ req' = [req EXCEPT ![p] = Respond([@ EXCEPT !.msgs = listFor(req[p].cid)], 200)]
    /\ UNCHANGED <<db, now, conns, secretSet>>

\* --- SpecRead: the three read requests of every user, one at a time, on
\* every table of MaxConvs conversations the write requests can leave behind
RD == "p1"

\* status and attendant of a row: pending without attendant, active with one,
\* closed with or without one
Shapes ==
    {<<"pending", NoUser>>}
    \cup ({"active"} \X {"a1", "a2", "ad"})
    \cup ({"closed"} \X {NoUser, "a1", "a2", "ad"})

ReadTables ==
    {[i \in 1..MaxConvs |->
        [NewConversation(i, i, f[i][1], 0) EXCEPT
            !.status = f[i][2][1], !.attendantId = f[i][2][2]]] :
     f \in [1..MaxConvs -> {"c1", "c2"} \X Shapes]}

InitRead ==
    /\ users = SeedUsers
    /\ conversations \in ReadTables
    /\ protocols = {[protocol |-> i, conversationId |-> i] : i \in 1..MaxConvs}
    /\ messages = <<NewMessage(1, 1, conversations[1].clientId, "hello", 0)>>
    /\ now = 0
    /\ req = [p \in Procs |-> Idle]
    /\ conns = [s \in Conns |-> NewConn]
    /\ secretSet = TRUE
    /\ webhooks = <<>>

NextRead ==
    \/ \E token \in Tokens, status \in Statuses \cup {NoFilter} :
          GetConversations(RD, token, status)
    \/ ListQuery(RD)
    \/ \E token \in Tokens, cid \in KnownIds : GetConversation(RD, token, cid)
    \/ GetSelect(RD)
    \/ GetMessages(RD)
    \/ \E token \in Tokens, cid \in KnownIds : GetListFor(RD, token, cid)
    \/ ListForSelect(RD)
    \/ ListForMessages(RD)
    \/ Return(RD)

SpecRead == InitRead /\ [][NextRead]_vars

(***************************************************************************)
(* Properties                                                              *)
(***************************************************************************)
Finished(p, op) == req[p].pc = "done" /\ req[p].op = op

Rows == 1..Len(conversations)

\* C1: two assign calls by two attendants in flight together on the same
\* conversation, at least one of which read it pending: exactly one of them
\* succeeds (200) and the other one is rejected with InvalidState (400).
C1_ExactlyOneAssignSucceeds ==
    \A p, q \in Procs :
        ( /\ p # q
          /\ Finished(p, "assign") /\ Finished(q, "assign")
          /\ AssignAllowed(req[p].role) /\ AssignAllowed(req[q].role)
          /\ req[p].uid # req[q].uid /\ req[p].cid = req[q].cid
          /\ req[p].snap.status = "pending" /\ req[q].snap # NoRow )
        => \/ req[p].res = 200 /\ req[q].res = 400
           \/ req[p].res = 400 /\ req[q].res = 200

\* C2: once a conversation's attendantId is set, no step changes it.
C2_AttendantSetOnce ==
    [][\A i \in Rows :
          conversations[i].attendantId # NoUser
          => conversations'[i].attendantId = conversations[i].attendantId]_vars

\* C3: no transition exits closed: a conversation whose persisted status is
\* closed keeps that status in every step of every request.
C3_ClosedIsFinal ==
    [][\A i \in Rows :
          conversations[i].status = "closed"
          => conversations'[i].status = "closed"]_vars

Rank(status) ==
    CASE status = "pending" -> 0
      [] status = "active" -> 1
      [] OTHER -> 2

\* C4: the statuses a conversation takes follow the order pending -> active ->
\* closed (pending -> closed being legal, section 4.1): no step takes a
\* conversation back, neither active -> pending nor out of closed.
C4_StatusOnlyAdvances ==
    [][\A i \in Rows :
          Rank(conversations'[i].status) >= Rank(conversations[i].status)]_vars

\* the message:new events in an inbox that carry this conversation, content, sender
Received(s, conversationId, content, sender) ==
    {i \in 1..Len(conns[s].inbox) :
        /\ conns[s].inbox[i].type = "message:new"
        /\ conns[s].inbox[i].conversationId = conversationId
        /\ conns[s].inbox[i].content = content
        /\ conns[s].inbox[i].sender = sender}

\* C5: when an append has succeeded (201) for conversation X, every connection
\* that was in room conversation:X when the message was stored, and still is,
\* has received exactly one message:new event with the content and the sender
\* of the persisted message.
C5_AppendBroadcasts ==
    \A p \in Procs :
        (Finished(p, "append") /\ req[p].res = 201)
        => \A s \in req[p].aud \cap Members(ConversationRoom(req[p].cid)) :
              Cardinality(Received(s, req[p].cid, req[p].content, req[p].uid)) = 1

\* C6: an append by a client, with content, on an existing conversation is
\* accepted (201) exactly when the row it read has clientId = requester and
\* status = active; and the step that rejects it leaves the ledger unchanged.
C6_ClientAppendRule ==
    /\ [](\A p \in Procs :
            ( /\ Finished(p, "append") /\ req[p].role = "client"
              /\ req[p].content # "" /\ req[p].snap # NoRow )
            => ( req[p].res = 201
                 <=> /\ req[p].snap.clientId = req[p].uid
                     /\ req[p].snap.status = "active" ))
    /\ [][\A p \in Procs :
            ( /\ req[p].pc = "m_select" /\ req[p].role = "client"
              /\ req[p].cid \in Rows
              /\ ~( /\ conversations[req[p].cid].clientId = req[p].uid
                    /\ conversations[req[p].cid].status = "active" )
              /\ req'[p] # req[p] )
            => /\ req'[p].pc = "done" /\ req'[p].res \in {400, 403}
               /\ messages' = messages]_vars

C6_Witness ==
    \E p \in Procs :
        /\ Finished(p, "append") /\ req[p].role = "client"
        /\ req[p].content # ""
        /\ req[p].snap.clientId = req[p].uid
        /\ req[p].snap.status = "pending"
        /\ req[p].res = 400
        /\ messages = <<>>

Entry(m) == <<m.senderId, m.content>>

\* C7: after the scenario create, assign, "hello" by C, "hi" by A, close by A,
\* the ledger of the conversation is [C:"hello", A:"hi"] in that order, the
\* status is closed, and every further append by C is refused and adds nothing.
C7_EndToEnd ==
    (Len(conversations) = 1 /\ conversations[1].status = "closed")
    => /\ Len(listFor(1)) = 2
       /\ Len(messages) = 2
       /\ Entry(listFor(1)[1]) = <<conversations[1].clientId, "hello">>
       /\ Entry(listFor(1)[2]) = <<conversations[1].attendantId, "hi">>
       /\ conversations[1].attendantId \in {"a1", "a2"}
       /\ \A p \in Procs :
             (Finished(p, "append") /\ req[p].uid = conversations[1].clientId)
             => req[p].res = 400

C7_Witness ==
    /\ Len(conversations) = 1 /\ conversations[1].status = "closed"
    /\ \E p \in Procs :
          /\ Finished(p, "append") /\ req[p].uid = conversations[1].clientId
          /\ req[p].res = 400
    /\ Len(messages) = 2

\* C8: an assign by an attendant or admin that reads an existing conversation
\* whose status is not pending ends 400 in that step and the step leaves the
\* conversations table (attendantId, status) unchanged.
C8_AssignNonPendingRejected ==
    [][\A p \in Procs :
          ( /\ req[p].pc = "a_select" /\ req[p].cid \in Rows
            /\ conversations[req[p].cid].status # "pending"
            /\ req'[p] # req[p] )
          => /\ req'[p].pc = "done" /\ req'[p].res = 400
             /\ conversations' = conversations]_vars

C8_Witness ==
    \E p \in Procs :
        /\ Finished(p, "assign") /\ req[p].res = 400
        /\ req[p].role \in {"attendant", "admin"}
        /\ req[p].snap.status = "closed"
        /\ conversations[req[p].cid] = req[p].snap

\* C9: the write of an assign by R leaves the persisted row with attendantId = R
\* and status = active, and an assign that answers 200 returns a row whose
\* attendantId is R.
C9_AssignSetsAttendant ==
    /\ [][\A p \in Procs :
            (req[p].pc = "a_update" /\ req'[p].pc = "a_webhook")
            => /\ conversations'[req[p].cid].attendantId = req[p].uid
               /\ conversations'[req[p].cid].status = "active"]_vars
    /\ [](\A p \in Procs :
            (Finished(p, "assign") /\ req[p].res = 200)
            => /\ req[p].ret.attendantId = req[p].uid
               /\ req[p].ret.status = "active"
               /\ req[p].ret.id = req[p].cid)

C9_Witness ==
    \E p \in Procs :
        /\ Finished(p, "assign") /\ req[p].res = 200
        /\ req[p].ret.attendantId = req[p].uid
        /\ conversations[req[p].cid].attendantId = req[p].uid

\* C10: a create by an attendant or an admin is answered 403 in its first step,
\* and that step adds no conversation, no protocol record and no message.
C10_OnlyClientsCreate ==
    [][\A p \in Procs :
          ( /\ req'[p].op = "create" /\ req'[p].role \in {"attendant", "admin"}
            /\ req'[p] # req[p] )
          => /\ req'[p].pc = "done" /\ req'[p].res = 403
             /\ UNCHANGED <<conversations, protocols, messages>>]_vars

C10_Witness ==
    \E p \in Procs :
        /\ Finished(p, "create") /\ req[p].res = 403
        /\ req[p].role = "admin"
        /\ Len(conversations) = 1

\* C11: a pending conversation has no attendant and an active one has an
\* attendant; a conversation keeps its attendantId when it becomes closed and
\* while it stays closed, so a closed conversation has an attendant exactly
\* when it was active when it was closed.
C11_AttendantIffAssigned ==
    /\ [](\A i \in Rows :
            /\ conversations[i].status = "pending"
                  => conversations[i].attendantId = NoUser
            /\ conversations[i].status = "active"
                  => conversations[i].attendantId # NoUser)
    /\ [][\A i \in Rows :
            conversations'[i].status = "closed"
            => conversations'[i].attendantId = conversations[i].attendantId]_vars

C11_Witness ==
    /\ Quiet
    /\ \E i \in Rows : /\ conversations[i].status = "closed"
                       /\ conversations[i].attendantId = "a1"

\* the rows of the messages table that belong to a conversation
RowsOf(conversationId) ==
    {messages[i] : i \in {j \in 1..Len(messages) :
                             messages[j].conversationId = conversationId}}

\* C12: the ledger is append-only without loss: no step removes or alters a
\* stored message; listFor returns exactly the stored messages of the
\* conversation, each once, in non-decreasing creation-time order; and the
\* message of every accepted append (201) is among them.
C12_LedgerAppendOnly ==
    /\ [][/\ Len(messages') >= Len(messages)
          /\ \A i \in 1..Len(messages) : messages'[i] = messages[i]]_vars
    /\ [](\A c \in Rows :
            LET l == listFor(c)
            IN /\ {l[i] : i \in 1..Len(l)} = RowsOf(c)
               /\ Len(l) = Cardinality(RowsOf(c))
               /\ \A i, j \in 1..Len(l) :
                     i < j => l[i].createdAt <= l[j].createdAt)
    /\ [](\A p \in Procs :
            (Finished(p, "append") /\ req[p].res = 201)
            => \E i \in 1..Len(listFor(req[p].cid)) :
                  Entry(listFor(req[p].cid)[i]) = <<req[p].uid, req[p].content>>)

C12_Witness ==
    /\ Len(listFor(1)) = MaxLedger
    /\ listFor(1)[1].createdAt < listFor(1)[MaxLedger].createdAt
    /\ listFor(1)[1].createdAt = listFor(1)[2].createdAt
    /\ \E p \in Procs : Finished(p, "append") /\ req[p].res = 201

\* the requester is the owning client, the assigned attendant, or an admin
MayClose(role, uid, conversation) ==
    \/ role = "client" /\ conversation.clientId = uid
    \/ role = "attendant" /\ conversation.attendantId = uid
    \/ role = "admin"

\* C13: a close on an existing conversation is accepted (200) exactly when the
\* requester is the owning client, the assigned attendant or an admin, judged
\* on the row the call read; for every other requester the step that reads
\* the row answers 403 and leaves the conversations table unchanged.
C13_CloseAuthorization ==
    /\ [](\A p \in Procs :
            (Finished(p, "close") /\ req[p].snap # NoRow)
            => /\ req[p].res \in {200, 403}
               /\ req[p].res = 200
                     <=> MayClose(req[p].role, req[p].uid, req[p].snap))
    /\ [][\A p \in Procs :
            ( /\ req[p].pc = "x_select" /\ req[p].cid \in Rows
              /\ ~MayClose(req[p].role, req[p].uid, conversations[req[p].cid])
              /\ req'[p] # req[p] )
            => /\ req'[p].pc = "done" /\ req'[p].res = 403
               /\ conversations' = conversations]_vars

C13_Witness ==
    \E p \in Procs :
        /\ Finished(p, "close") /\ req[p].res = 403
        /\ req[p].role = "attendant"
        /\ req[p].snap.status = "pending"
        /\ conversations[req[p].cid].status = "pending"

\* the visibility rule: a client sees their own conversations, an attendant
\* the pending ones and those assigned to them, an admin all
Visible(role, uid, c) ==
    \/ role = "client" /\ c.clientId = uid
    \/ role = "attendant" /\ (c.status = "pending" \/ c.attendantId = uid)
    \/ role = "admin"

\* C14: list returns exactly the conversations that are visible to the
\* requester and, when a status filter is given, have that status.
C14_ListVisibility ==
    \A p \in Procs :
        Finished(p, "list") /\ req[p].res = 200
        => req[p].rows =
              {conversations[i] : i \in {j \in Rows :
                   /\ Visible(req[p].role, req[p].uid, conversations[j])
                   /\ req[p].filter # NoFilter
                         => conversations[j].status = req[p].filter}}

C14_Witness ==
    \E p \in Procs :
        /\ Finished(p, "list") /\ req[p].res = 200
        /\ req[p].role = "attendant" /\ req[p].filter = "closed"
        /\ req[p].rows # {}
        /\ \E i \in Rows : /\ conversations[i].status = "closed"
                           /\ conversations[i] \notin req[p].rows

\* C15: get and listFor apply the visibility rule of list: a get or a listFor
\* of an existing conversation succeeds (200) exactly when the other one
\* would and exactly when the conversation is in the requester's unfiltered
\* list; otherwise it is answered 403.
C15_SameReadVisibility ==
    \A p \in Procs :
        ( /\ Finished(p, "get") \/ Finished(p, "listFor")
          /\ req[p].snap # NoRow )
        => /\ req[p].res \in {200, 403}
           /\ req[p].res = 200
                 <=> GetPermission(req[p].role, req[p].uid, req[p].snap) = 0
           /\ req[p].res = 200
                 <=> ListForPermission(req[p].role, req[p].uid, req[p].snap) = 0
           /\ req[p].res = 200
                 <=> req[p].snap \in ListRows(req[p].role, req[p].uid, NoFilter)

C15_Witness ==
    \E p \in Procs :
        /\ Finished(p, "listFor") /\ req[p].res = 403
        /\ req[p].role = "attendant"
        /\ req[p].snap.status = "active"
        /\ req[p].snap \notin ListRows(req[p].role, req[p].uid, NoFilter)

\* C16: no two conversations carry the same protocol code, also when two
\* creates in flight together have drawn the same code and both found it free.
C16_ProtocolUnique ==
    \A i, j \in Rows :
        i # j => conversations[i].protocol # conversations[j].protocol

C16_Witness ==
    \E p \in Procs :
        /\ Finished(p, "create") /\ req[p].res = 500
        /\ \E i \in Rows : conversations[i].protocol = req[p].protocol

\* C17: a connection that presented no token, or a token that jwt.verify
\* rejects, has failed its handshake: it is in no room, has received no event,
\* and no later step changes it (none of its events is handled).
C17_HandshakeFailure ==
    /\ [](\A s \in Conns :
            ( /\ conns[s].state # "new"
              /\ conns[s].token = NoToken \/ conns[s].token.key # JWT_SECRET )
            => /\ conns[s].state = "refused"
               /\ conns[s].rooms = {}
               /\ conns[s].inbox = <<>>)
    /\ [][\A s \in Conns :
            conns[s].state = "refused" => conns'[s] = conns[s]]_vars

C17_Witness ==
    \E s, t \in Conns :
        /\ conns[s].state = "refused" /\ conns[s].token = ForgedToken
        /\ conns[t].state = "open"
        /\ ConversationRoom(1) \in conns[t].rooms

\* C18: a connection opened with the token generateToken issued to user u is
\* in rooms user:u and role:r, r being the stored role of u; so the members
\* of room role:r, which emitToRole(r, ...) reaches, are exactly the open
\* connections of the users whose role is r.
C18_RoleRooms ==
    /\ \A s \in Conns, u \in UserIds :
          (conns[s].state = "open" /\ conns[s].token = generateToken(u))
          => /\ UserRoom(u) \in conns[s].rooms
             /\ RoleRoom(users[u]) \in conns[s].rooms
    /\ \A r \in Roles :
          Members(RoleRoom(r)) =
             {s \in Conns : /\ conns[s].state = "open"
                            /\ conns[s].id \in UserIds
                            /\ users[conns[s].id] = r}

\* C20: a step of a socket handler (join:conversation, leave:conversation,
\* message:send, typing:start, typing:stop, disconnect; any step that changes
\* a connection) leaves the conversations and messages tables unchanged; a
\* relayed message:send adds no row to the ledger.
C20_SocketEventsFrame ==
    [][(\E s \in Conns : conns'[s] # conns[s])
         => UNCHANGED <<conversations, messages>>]_vars

C20_Witness ==
    /\ messages = <<>>
    /\ \E s \in Conns :
          /\ Len(conns[s].inbox) > 0
          /\ conns[s].inbox[1].type = "message:new"

\* C19: an append with content by an attendant on an existing conversation is
\* accepted (201) exactly when the row it read has attendantId = requester,
\* whatever its status, and is answered 403 otherwise (so always on a pending
\* conversation); an admin's append on an existing conversation is accepted.
C19_AttendantAppendRule ==
    \A p \in Procs :
        ( /\ Finished(p, "append") /\ req[p].content # ""
          /\ req[p].snap # NoRow )
        => /\ req[p].role = "attendant"
                 => /\ req[p].res \in {201, 403}
                    /\ req[p].res = 201 <=> req[p].snap.attendantId = req[p].uid
                    /\ req[p].snap.status = "pending" => req[p].res = 403
           /\ req[p].role = "admin" => req[p].res = 201

C19_Witness ==
    \E p \in Procs :
        /\ Finished(p, "append") /\ req[p].res = 201
        /\ req[p].role = "attendant"
        /\ req[p].snap.status = "closed"
        /\ Len(messages) = 1 /\ messages[1].senderId = req[p].uid

\* the principal of a connection may not read the conversation over REST
ReadForbidden(s, conversationId) ==
    /\ conns[s].id \in DOMAIN users
    /\ GetPermission(users[conns[s].id], conns[s].id,
                     SelectConversation(conversationId)) = 403

\* C21: the gateway checks no authorization on rooms: every open connection,
\* also one whose principal may not read conversation X over REST, can join
\* room conversation:X; and an event relayed into the room reaches every
\* member but the relaying connection, whoever its principal is, and carries
\* the relaying connection's principal as its sender.
C21_RoomsUnchecked ==
    /\ [](\A s \in Conns :
            conns[s].state = "open" => ENABLED JoinConversation(s, 1))
    /\ [][\A s \in Conns :
            Len(conns'[s].inbox) > Len(conns[s].inbox)
            => LET e == conns'[s].inbox[Len(conns'[s].inbox)]
               IN \E t \in Conns \ {s} :
                     /\ conns[t].state = "open" /\ conns[t].id = e.sender
                     /\ conns'[t] = conns[t]
                     /\ \A m \in Members(ConversationRoom(e.conversationId)) \ {t} :
                           conns'[m].inbox = Append(conns[m].inbox, e)]_vars

C21_Witness ==
    \E s, t \in Conns :
        /\ ReadForbidden(s, 1)
        /\ ConversationRoom(1) \in conns[s].rooms
        /\ Len(conns[s].inbox) = 1
        /\ conns[s].inbox[1].type = "message:new"
        /\ conns[s].inbox[1].sender = conversations[1].attendantId
        /\ Len(conns[t].inbox) = 1
        /\ conns[t].inbox[1].type = "message:new"
        /\ conns[t].inbox[1].sender = conns[s].id

\* C22: a close by an authorised requester that finds the conversation already
\* closed is not refused; its update leaves the row as it is but for
\* updatedAt (status closed, clientId and attendantId unchanged), and the
\* call is answered 200 with that row.
C22_RecloseIsSilent ==
    /\ [][\A p \in Procs :
            ( /\ req[p].pc = "x_select" /\ req[p].cid \in Rows
              /\ conversations[req[p].cid].status = "closed"
              /\ MayClose(req[p].role, req[p].uid, conversations[req[p].cid])
              /\ req'[p] # req[p] )
            => req'[p].pc = "x_update" /\ conversations' = conversations]_vars
    /\ [][\A p \in Procs :
            ( /\ req[p].pc = "x_update"
              /\ conversations[req[p].cid].status = "closed"
              /\ req'[p] # req[p] )
            => conversations'[req[p].cid] =
                  [conversations[req[p].cid] EXCEPT !.updatedAt = now]]_vars
    /\ [](\A p \in Procs :
            ( /\ Finished(p, "close") /\ req[p].snap.status = "closed"
              /\ MayClose(req[p].role, req[p].uid, req[p].snap) )
            => /\ req[p].res = 200
               /\ req[p].ret.status = "closed"
               /\ req[p].ret.clientId = req[p].snap.clientId
               /\ req[p].ret.attendantId = req[p].snap.attendantId
               /\ conversations[req[p].cid].status = "closed")

C22_Witness ==
    \E p \in Procs :
        /\ Finished(p, "close") /\ req[p].res = 200
        /\ req[p].snap.status = "closed"
        /\ req[p].ret.updatedAt > req[p].snap.updatedAt
        /\ conversations[req[p].cid] = req[p].ret

\* C23: the insert of a create by a client stores a row with status pending,
\* clientId = requester and no attendant; when the create has returned (201)
\* the ledger of the new conversation holds exactly the initial message, sent
\* by the requester, if one was supplied and nothing otherwise; and no step of
\* any operation changes the clientId of a conversation.
C23_CreatePersists ==
    /\ [][\A p \in Procs :
            (req[p].pc = "c_insert" /\ req'[p].pc = "c_protocol")
            => /\ Len(conversations') = Len(conversations) + 1
               /\ LET row == conversations'[Len(conversations')]
                  IN /\ row.status = "pending"
                     /\ row.clientId = req[p].uid
                     /\ row.attendantId = NoUser
                     /\ req[p].role = "client"]_vars
    /\ [](\A p \in Procs :
            (Finished(p, "create") /\ req[p].res = 201)
            => /\ req[p].cid \in Rows
               /\ conversations[req[p].cid].clientId = req[p].uid
               /\ req[p].ret.status = "pending"
               /\ req[p].ret.attendantId = NoUser
               /\ LET l == listFor(req[p].cid)
                  IN IF req[p].content = "" THEN l = <<>>
                     ELSE /\ Len(l) = 1
                          /\ Entry(l[1]) = <<req[p].uid, req[p].content>>)
    /\ [][\A i \in Rows :
            conversations'[i].clientId = conversations[i].clientId]_vars

C23_Witness ==
    \E p \in Procs :
        /\ Finished(p, "create") /\ req[p].res = 201
        /\ req[p].content = "hello"
        /\ Len(listFor(req[p].cid)) = 1
        /\ conversations[req[p].cid].status = "pending"
        /\ Len(conversations) = 2 /\ conversations[1].status = "closed"

\* the state change of a request that went through is in the tables
Persisted(r) ==
    CASE r.op = "create" -> r.cid \in Rows /\ conversations[r.cid].id = r.ret.id
      [] r.op \in {"assign", "close"} -> conversations[r.cid] = r.ret
      [] OTHER -> \E i \in 1..Len(messages) :
                     /\ messages[i].conversationId = r.cid
                     /\ Entry(messages[i]) = <<r.uid, r.content>>

\* C24: a failure of the dispatcher (the lookup throws, a webhook is
\* unreachable or answers non-2xx) is swallowed: a request that has called
\* triggerWebhook is answered with its success status and its state change
\* stays persisted whatever the deliveries came to; no step of triggerWebhook
\* changes a table; and no webhook is tried twice for one event.
C24_DispatcherFailureSwallowed ==
    /\ [](\A p \in Procs :
            (req[p].pc = "done" /\ req[p].evs # <<>>)
            => /\ req[p].res = SuccessCode(req[p].op)
               /\ Persisted(req[p]))
    /\ [][\A p \in Procs :
            ( /\ req[p].pc \in {"c_webhook", "a_webhook", "x_webhook",
                                 "m_webhook", "hook"}
              /\ req'[p] # req[p] )
            => UNCHANGED <<conversations, protocols, messages>>]_vars
    /\ [](\A p \in Procs :
            /\ \A i, j \in 1..Len(req[p].log) :
                  i # j => req[p].log[i].to # req[p].log[j].to
            /\ Len(req[p].evs) <= 1)

C24_Witness ==
    \E p \in Procs :
        /\ Finished(p, "close") /\ req[p].res = 200
        /\ req[p].log = <<[to |-> "w1", outcome |-> "error"],
                          [to |-> "w2", outcome |-> "status"]>>
        /\ conversations[req[p].cid].status = "closed"

\* C25: emission is fire-and-forget: while a delivery of the event of a
\* request is outstanding, the handler can answer its caller, the delivery
\* still being outstanding when the response is produced.
C25_EmissionNonBlocking ==
    \A p \in Procs :
        (req[p].pc = "hook" /\ req[p].out # <<>>)
        => ENABLED (/\ NextHook
                    /\ req'[p].pc = "done"
                    /\ req'[p].out # <<>>)

\* C26: a create, assign, close or append that is answered with its success
\* status has handed its event to the dispatcher exactly once, and one that
\* is rejected (400, 401, 403, 404, 500) has handed it none; the step that
\* hands the event over finds the state change of the request already in the
\* tables.
C26_EventOncePerSuccess ==
    /\ [](\A p \in Procs :
            req[p].pc = "done"
            => IF req[p].res = SuccessCode(req[p].op)
               THEN req[p].evs = <<EventOf(req[p].op)>>
               ELSE /\ req[p].evs = <<>>
                    /\ req[p].res \in {400, 401, 403, 404, 500})
    /\ [][\A p \in Procs :
            Len(req'[p].evs) > Len(req[p].evs)
            => /\ req'[p].evs = <<EventOf(req[p].op)>>
               /\ Persisted(req[p])
               /\ UNCHANGED <<conversations, protocols, messages>>]_vars

C26_Witness ==
    \E p \in Procs :
        /\ Finished(p, "assign") /\ req[p].res = 200
        /\ req[p].evs = <<"conversation.assigned">>
        /\ req[p].log = <<[to |-> "w1", outcome |-> "ok"]>>
        /\ conversations[req[p].cid].attendantId = req[p].uid

\* C27: with a fair generator and a code left unused, a create that has
\* entered the protocol loop leaves it and is answered.
C27_CreateTerminates ==
    \A p \in Procs : (req[p].pc = "c_select") ~> (req[p].pc = "done")

C27_Witness ==
    \E p \in Procs :
        /\ req[p].pc = "c_select"
        /\ ExistingProtocol(req[p].protocol) # {}
        /\ \E code \in Protocols : ExistingProtocol(code) = {}

\* the rows a step adds to the messages table
Inserted == {messages'[i] : i \in (Len(messages) + 1)..Len(messages')}

\* the sender of a message is the client of its conversation
ByOwningClient(m) ==
    /\ m.conversationId \in Rows
    /\ m.senderId = conversations[m.conversationId].clientId

\* C28 (as stated): every message whose sender is the owning client of its
\* conversation is inserted while the status of that conversation is active.
C28_ClientWritesOnlyWhileActive ==
    [][\A m \in Inserted :
          ByOwningClient(m)
          => conversations[m.conversationId].status = "active"]_vars

\* C28 (amended): every message whose sender is the owning client of its
\* conversation is inserted either by the create of that conversation, as its
\* initial message, or by an append whose read of the conversation found the
\* status active.
C28_ClientWritesInitialOrActiveRead ==
    [][\A m \in Inserted :
          ByOwningClient(m)
          => \E p \in Procs :
                /\ req[p].uid = m.senderId /\ req[p].cid = m.conversationId
                /\ \/ req[p].op = "create" /\ req[p].pc = "c_message"
                   \/ /\ req[p].op = "append" /\ req[p].pc = "m_insert"
                      /\ req[p].snap.status = "active"]_vars

C28_Witness ==
    /\ Len(messages) = 1
    /\ messages[1].senderId = conversations[messages[1].conversationId].clientId
    /\ conversations[messages[1].conversationId].status = "pending"
    /\ \E p \in Procs : Finished(p, "create") /\ req[p].res = 201

\* C29: the sender of every ledger message is the client of its conversation,
\* the attendant currently assigned to it, or an admin.
C29_SendersAreParties ==
    \A i \in 1..Len(messages) :
        LET m == messages[i]
            c == conversations[m.conversationId]
        IN \/ m.senderId = c.clientId
           \/ m.senderId = c.attendantId
           \/ users[m.senderId] = "admin"

(***************************************************************************)
(* User management: POST /auth/register, POST /users, PUT /users/:id       *)
(* A user is named by its email, which is unique; the requests modelled    *)
(* leave the email of an existing user alone.                              *)
(***************************************************************************)
\* the emails a new user may be registered or created under
NewIds == {"n1", "n2"}

\* const { role = 'client' } = req.body: an absent role is 'client'
BodyRole(role) == IF role = "none" THEN "client" ELSE role

\* insert into users values { email, role }
InsertUser(email, role) ==
    [u \in DOMAIN users \cup {email} |-> IF u = email THEN role ELSE users[u]]

\* requireRole(...roles): 401 without a user, 403 when the role is not listed
requireRole(user, roles) ==
    IF ~user.ok THEN 401 ELSE IF user.role \notin roles THEN 403 ELSE 0

\* the request of a user-management call: who calls, for which user, which role
StartedUser(op, user, target, role) ==
    [Idle EXCEPT !.op = op, !.uid = user.id, !.role = user.role,
                 !.target = target, !.newRole = role]

\* POST /auth/register: no middleware; the role is taken from the body
PostRegister(p, email, role, complete) ==
    /\ req[p].pc = "idle"
    /\ LET r == StartedUser("register", [id |-> NoUser, role |-> "none"],
                            email, BodyRole(role))
       IN req' = [req EXCEPT ![p] =
                    IF ~complete THEN Respond(r, 400)
                    ELSE [r EXCEPT !.pc = "r_select"]]
    /\ UNCHANGED <<db, now, conns, secretSet>>

\* select from users where email = ...; 400 when the email is registered
RegisterSelect(p) ==
    /\ req[p].pc = "r_select"
    /\ req' = [req EXCEPT ![p] =
                 IF @.target \in DOMAIN users THEN Respond(@, 400)
                 ELSE [@ EXCEPT !.pc = "r_insert"]]
    /\ UNCHANGED <<db, now, conns, secretSet>>

\* bcrypt.hash, then insert into users ... returning; a second row for the
\* email violates the unique index and the catch answers 500
RegisterInsert(p) ==
    /\ req[p].pc = "r_insert"
    /\ IF req[p].target \in DOMAIN users
       THEN /\ req' = [req EXCEPT ![p] = Respond(@, 500)]
            /\ UNCHANGED users
       ELSE /\ users' = InsertUser(req[p].target, req[p].newRole)
            /\ req' = [req EXCEPT ![p] = [@ EXCEPT !.pc = "r_webhook"]]
    /\ UNCHANGED <<webhooks, conversations, protocols, messages, now, conns,
                   secretSet>>

\* generateToken(user.id); await triggerWebhook('auth.register', ...); 201
RegisterWebhook(p) ==
    /\ req[p].pc = "r_webhook"
    /\ req' = [req EXCEPT ![p] = triggerWebhook(@, "auth.register")]
    /\ UNCHANGED <<db, now, conns, secretSet>>

\* POST /users: authenticate, requireRole('admin'), then as register
PostUsers(p, token, email, role, complete) ==
    /\ req[p].pc = "idle"
    /\ LET user == authenticate(token)
           code == requireRole(user, {"admin"})
           r == StartedUser("createUser", user, email, BodyRole(role))
       IN req' = [req EXCEPT ![p] =
                    IF code # 0 THEN Respond(r, code)
                    ELSE IF ~complete THEN Respond(r, 400)
                    ELSE [r EXCEPT !.pc = "u_select"]]
    /\ UNCHANGED <<db, now, conns, secretSet>>

\* select from users where email = ...; 400 when the email is registered
CreateUserSelect(p) ==
    /\ req[p].pc = "u_select"
    /\ req' = [req EXCEPT ![p] =
                 IF @.target \in DOMAIN users THEN Respond(@, 400)
                 ELSE [@ EXCEPT !.pc = "u_insert"]]
    /\ UNCHANGED <<db, now, conns, secretSet>>

\* bcrypt.hash, then insert into users ... returning; a second row for the
\* email violates the unique index and the catch answers 500
CreateUserInsert(p) ==
    /\ req[p].pc = "u_insert"
    /\ IF req[p].target \in DOMAIN users
       THEN /\ req' = [req EXCEPT ![p] = Respond(@, 500)]
            /\ UNCHANGED users
       ELSE /\ users' = InsertUser(req[p].target, req[p].newRole)
            /\ req' = [req EXCEPT ![p] = [@ EXCEPT !.pc = "u_webhook"]]
    /\ UNCHANGED <<webhooks, conversations, protocols, messages, now, conns,
                   secretSet>>

\* await triggerWebhook('user.created', user); 201
CreateUserWebhook(p) ==
    /\ req[p].pc = "u_webhook"
    /\ req' = [req EXCEPT ![p] = triggerWebhook(@, "user.created")]
    /\ UNCHANGED <<db, now, conns, secretSet>>

\* PUT /users/:id up to the update: oneself or an admin; a role only by an admin
UpdatePermission(user, id, role) ==
    IF user.id # id /\ user.role # "admin" THEN 403
    ELSE IF role # "none" /\ user.role # "admin" THEN 403
    ELSE 0

PutUser(p, token, id, role) ==
    /\ req[p].pc = "idle"
    /\ LET user == authenticate(token)
           r == StartedUser("updateUser", user, id, role)
       IN req' = [req EXCEPT ![p] =
                    IF ~user.ok THEN Respond(r, 401)
                    ELSE IF UpdatePermission(user, id, role) # 0
                    THEN Respond(r, UpdatePermission(user, id, role))
                    ELSE [r EXCEPT !.pc = "p_update"]]
    /\ UNCHANGED <<db, now, conns, secretSet>>

\* update users set updateData where id = ... returning; 404 without a row
UserUpdate(p) ==
    /\ req[p].pc = "p_update"
    /\ IF req[p].target \notin DOMAIN users
       THEN /\ req' = [req EXCEPT ![p] = Respond(@, 404)]
            /\ UNCHANGED users
       ELSE /\ users' = IF req[p].newRole # "none"
                        THEN [users EXCEPT ![req[p].target] = req[p].newRole]
                        ELSE users
            /\ req' = [req EXCEPT ![p] = [@ EXCEPT !.pc = "p_webhook"]]
    /\ UNCHANGED <<webhooks, conversations, protocols, messages, now, conns,
                   secretSet>>

\* await triggerWebhook('user.updated', user); 200
UserUpdateWebhook(p) ==
    /\ req[p].pc = "p_webhook"
    /\ req' = [req EXCEPT ![p] = triggerWebhook(@, "user.updated")]
    /\ UNCHANGED <<db, now, conns, secretSet>>

\* the callers, emails and roles the user-management requests are drawn from
UserTokens == {NoToken} \cup {generateToken(u) : u \in {"c1", "ad", "n1"}}

UserTargets == {"c1", "n1"}

BodyRoles == Roles \cup {"none"}

HandleUsers(p) ==
    \/ RegisterSelect(p)
    \/ RegisterInsert(p)
    \/ RegisterWebhook(p)
    \/ CreateUserSelect(p)
    \/ CreateUserInsert(p)
    \/ CreateUserWebhook(p)
    \/ UserUpdate(p)
    \/ UserUpdateWebhook(p)

NextUsers ==
    \/ \E p \in Procs, email \in UserTargets, role \in BodyRoles,
          complete \in BOOLEAN :
           PostRegister(p, email, role, complete)
    \/ \E p \in Procs, token \in UserTokens, email \in UserTargets,
          role \in BodyRoles, complete \in BOOLEAN :
           PostUsers(p, token, email, role, complete)
    \/ \E p \in Procs, token \in UserTokens, id \in UserTargets,
          role \in BodyRoles :
           PutUser(p, token, id, role)
    \/ \E p \in Procs : HandleUsers(p)
    \/ \E p \in Procs : Return(p)

SpecUsers == Init /\ [][NextUsers]_vars

\* C30: a user comes to hold role admin or attendant only through the write of
\* a create-user or update-user request whose authenticated caller is an admin.
C30_NoPrivilegeEscalation ==
    [][\A u \in DOMAIN users' :
          (/\ users'[u] \in {"admin", "attendant"}
           /\ (u \notin DOMAIN users \/ users[u] # users'[u]))
          => \E p \in Procs :
                /\ req[p].op \in {"createUser", "updateUser"}
                /\ req[p].role = "admin"
                /\ req[p].target = u
                /\ req[p].pc \in {"u_insert", "p_update"}
                /\ req'[p].pc # req[p].pc]_vars

====
